---- MODULE Spec2Model ----
(***************************************************************************)
(* PipeRelay (piperelay.py): an HTTP ingress that queues JSON messages and *)
(* a background thread that relays them over a named pipe to every         *)
(* connected pipe client (SERVER role), and a pipe client that prints what *)
(* it receives and acknowledges it (CLIENT role).                          *)
(*                                                                         *)
(* Python values are modelled as follows.  A JSON scalar is a record       *)
(* [k, s]: k = "str" with the text s, or k = "null" (Python None).  A dict *)
(* is a sequence of [key, val] pairs in insertion order, a list the same   *)
(* with empty keys.  A decoded JSON document is [k, s, o]: k = "obj" with  *)
(* the dict o, k = "arr" with the list o, or a scalar.  A                  *)
(* serialized document (a Python str) is a sequence of tokens, so that     *)
(* json.dumps and json.loads are real conversions.  An exception is the    *)
(* name of its class; "" means that nothing was raised.                    *)
(***************************************************************************)
EXTENDS Integers, Sequences, FiniteSets, TLC

\* ------------------------------------------------------------------ bounds
MaxPeers == 2        \* pipe clients that may connect to the server
MaxHandlers == 2     \* concurrent HTTP request contexts
MaxRequests == 3     \* HTTP requests served in all
MaxCalls == 3        \* calls of the session-level driver
MaxBatches == 2      \* messages the pipe server writes to the client role
MaxStrings == 4      \* different strings a caller puts in the fields of a MessageObject

\* ------------------------------------------------------------- JSON values
Str(s) == [k |-> "str", s |-> s]
Null == [k |-> "null", s |-> ""]
Pair(key, val) == [key |-> key, val |-> val]
Obj(o) == [k |-> "obj", s |-> "", o |-> o]
Arr(xs) == [k |-> "arr", s |-> "", o |-> [i \in 1..Len(xs) |-> Pair("", xs[i])]]
Doc(x) == [k |-> x.k, s |-> x.s, o |-> <<>>]

Tok(t, v) == [t |-> t, v |-> v]
LBrace == Tok("punct", "{")
RBrace == Tok("punct", "}")
Colon == Tok("punct", ":")
Comma == Tok("punct", ",")
LBracket == Tok("punct", "[")
RBracket == Tok("punct", "]")

\* json.dumps of a scalar: a quoted string or the word null
DumpScalar(x) == IF x.k = "null" THEN <<Tok("null", "")>> ELSE <<Tok("str", x.s)>>

RECURSIVE DumpPairs(_)
DumpPairs(o) ==
    IF o = <<>> THEN <<>>
    ELSE <<Tok("str", o[1].key), Colon>> \o DumpScalar(o[1].val)
         \o (IF Len(o) = 1 THEN <<>> ELSE <<Comma>> \o DumpPairs(Tail(o)))

RECURSIVE DumpItems(_)
DumpItems(o) ==
    IF o = <<>> THEN <<>>
    ELSE DumpScalar(o[1].val)
         \o (IF Len(o) = 1 THEN <<>> ELSE <<Comma>> \o DumpItems(Tail(o)))

\* json.dumps: the keys of a dict are written in insertion order
json_dumps(v) ==
    IF v.k = "obj" THEN <<LBrace>> \o DumpPairs(v.o) \o <<RBrace>>
    ELSE IF v.k = "arr" THEN <<LBracket>> \o DumpItems(v.o) \o <<RBracket>>
    ELSE DumpScalar(v)

IsScalarTok(t) == t.t \in {"str", "null"}
ScalarOfDefaulted(t) == Str(t.v)
ScalarOf(t) == IF t.t = "null" THEN Null ELSE Str(t.v)

\* dict[key] = val: an existing key keeps its place and takes the new value
SetItem(o, key, val) ==
    IF \E i \in 1..Len(o) : o[i].key = key
    THEN [i \in 1..Len(o) |-> IF o[i].key = key THEN Pair(key, val) ELSE o[i]]
    ELSE Append(o, Pair(key, val))

\* the members "key": value, "key": value, ... between the braces
WellFormedMembers(ts) ==
    /\ Len(ts) % 4 = 3
    /\ \A i \in 1..Len(ts) :
         CASE i % 4 = 1 -> ts[i].t = "str"
           [] i % 4 = 2 -> ts[i] = Colon
           [] i % 4 = 3 -> IsScalarTok(ts[i])
           [] OTHER -> ts[i] = Comma

RECURSIVE LoadMembers(_, _)
LoadMembers(ts, acc) ==
    IF Len(ts) < 3 THEN acc
    ELSE LoadMembers(SubSeq(ts, 5, Len(ts)), SetItem(acc, ts[1].v, ScalarOf(ts[3])))

\* the items value, value, ... between the brackets
WellFormedItems(ts) ==
    /\ Len(ts) % 2 = 1
    /\ \A i \in 1..Len(ts) : IF i % 2 = 1 THEN IsScalarTok(ts[i]) ELSE ts[i] = Comma

LoadItems(ts) == [i \in 1..((Len(ts) + 1) \div 2) |-> Pair("", ScalarOf(ts[2 * i - 1]))]

\* json.loads: [exc, val]; text that is no JSON document raises ValueError
json_loads(ts) ==
    IF Len(ts) = 1 /\ IsScalarTok(ts[1])
    THEN [exc |-> "", val |-> Doc(ScalarOf(ts[1]))]
    ELSE IF Len(ts) >= 2 /\ ts[1] = LBrace /\ ts[Len(ts)] = RBrace
              /\ (Len(ts) = 2 \/ WellFormedMembers(SubSeq(ts, 2, Len(ts) - 1)))
    THEN [exc |-> "", val |-> Obj(LoadMembers(SubSeq(ts, 2, Len(ts) - 1), <<>>))]
    ELSE IF Len(ts) >= 2 /\ ts[1] = LBracket /\ ts[Len(ts)] = RBracket
              /\ (Len(ts) = 2 \/ WellFormedItems(SubSeq(ts, 2, Len(ts) - 1)))
    THEN [exc |-> "", val |-> [k |-> "arr", s |-> "",
                               o |-> LoadItems(SubSeq(ts, 2, Len(ts) - 1))]]
    ELSE [exc |-> "ValueError", val |-> Doc(Null)]

\* key in dict, dict[key]
HasKey(o, key) == \E i \in 1..Len(o) : o[i].key = key
GetItem(o, key) == o[CHOOSE i \in 1..Len(o) : o[i].key = key].val

\* Python's `key in v` for a decoded document that is a dict (a key), a list
\* (an item) or a str (a substring: no text of this model holds a key name
\* inside a longer text)
Contains(v, key) ==
    IF v.k = "obj" THEN HasKey(v.o, key)
    ELSE IF v.k = "arr" THEN \E i \in 1..Len(v.o) : v.o[i].val = Str(key)
    ELSE v.k = "str" /\ v.s = key

\* ----------------------------------------------------------- MessageObject
MessageObject(source, destination, content) ==
    [source |-> source, destination |-> destination, content |-> content]

NoMessage == MessageObject(Null, Null, Null)

as_dictionary(m) ==
    <<Pair("source", m.source), Pair("destination", m.destination),
      Pair("content", m.content)>>

to_json_swapped(m) ==
    json_dumps(Obj(<<Pair("source", m.destination), Pair("destination", m.source),
                     Pair("content", m.content)>>))
to_json(m) == json_dumps(Obj(as_dictionary(m)))

validate_set_typo == <<"content", "source", "destnation">>
validate_set == <<"content", "source", "destination">>

\* MessageObject.from_json: [exc, obj].  json.loads may raise ValueError; the
\* test `item not in message_dict` raises TypeError when the document is
\* None; a missing item raises KeyError; message_dict["source"] raises
\* TypeError when the document is a list or a str.
from_json(message_json) ==
    LET loaded == json_loads(message_json)
        message_dict == loaded.val
    IN  IF loaded.exc # "" THEN [exc |-> loaded.exc, obj |-> NoMessage]
        ELSE IF message_dict.k = "null" THEN [exc |-> "TypeError", obj |-> NoMessage]
        ELSE IF \E i \in 1..Len(validate_set) : ~Contains(message_dict, validate_set[i])
        THEN [exc |-> "KeyError", obj |-> NoMessage]
        ELSE IF message_dict.k # "obj" THEN [exc |-> "TypeError", obj |-> NoMessage]
        ELSE [exc |-> "",
              obj |-> MessageObject(GetItem(message_dict.o, "source"),
                                    GetItem(message_dict.o, "destination"),
                                    GetItem(message_dict.o, "content"))]

\* ------------------------------------------------------------------- state
VARIABLES
    mode,            \* NamedPipeInterface.mode: "None", "SERVER" or "CLIENT"
    pipe_name,       \* NamedPipeInterface._pipe_name
    pipe_handle,     \* NamedPipeInterface.pipe_handle: [kind, id], kind "None" when unset
    opened,          \* wpipe channels constructed so far (the id of the newest)
    closed,          \* close() calls that reached the channel
    npeers,          \* pipe clients the wpipe server iterates over, in order 1..npeers
    inbox,           \* per pipe client: the messages it wrote that the server has not read
    client_written,  \* per pipe client: what the last send call wrote to it
    pipe_in,         \* CLIENT role: messages of the server not yet read
    nwrites,         \* CLIENT role: messages the server has written so far
    pipe_written,    \* CLIENT role: what pipe_handle.write delivered
    raised,          \* the exception the last call ended with, "" when it returned
    returnvalue,     \* what the last call returned: the list of recv, <<>> for None
    op,              \* history: the method of the last call on the session
    ncalls,          \* history: calls made on the session
    send_log,        \* history: the message_object of every send call, in call order
    recv_seen,       \* history: per pipe client, whether its turn in the SERVER recv
                     \* just made raised an exception
    main_pc,         \* where the main thread is in __main__ and Main.entry_point
    args_mode,       \* args.mode
    os_name,         \* os.name
    pipe_object,     \* Main.pipe_object: "None" until NamedPipeInterface() returned
    main_exc,        \* the exception that left entry_point, then the one that left quit
    alive,           \* Root.alive
    message_queue,   \* Root.message_queue
    worker_pc,       \* where the thread of Root._message_thread is
    message,         \* _message_thread: the local `message`
    head_read,       \* history: the message_queue[0] that from_json was given
    worker_exc,      \* _message_thread: the exception the try block raised in this
                     \* turn of the loop, "" when none
    handlers,        \* per HTTP request context: [pc, received_message, successful]
    nrequests,       \* HTTP requests received so far
    push_log,        \* history: the bodies whose payload was appended to
                     \* message_queue, in the order of the appends
    pop_log,         \* history: the payloads message_queue.pop(0) removed, in order
    client_active,   \* Main.client_active
    messages,        \* _client_thread: the local `messages`
    stdout,          \* the lines printed by _client_thread
    codec_pc,        \* where a caller of MessageObject alone is
    original,        \* that caller's MessageObject, NoMessage before it made one
    json_text,       \* the text to_json returned or the text given to from_json
    decoded          \* what from_json did with json_text: [exc, obj]

tvars == <<mode, pipe_name, pipe_handle, opened, closed, npeers, inbox, client_written,
           pipe_in, nwrites, pipe_written, raised, returnvalue, op, ncalls, send_log,
           recv_seen>>

mainv == <<main_pc, args_mode, os_name, pipe_object, main_exc>>

rootv == <<alive, message_queue, worker_pc, message, head_read, worker_exc, handlers,
           nrequests, push_log, pop_log>>

clientv == <<client_active, messages, stdout>>

codecv == <<codec_pc, original, json_text, decoded>>

vars == <<tvars, mainv, rootv, clientv, codecv>>

Peers == 1..MaxPeers

\* names given on the command line or to bind/connect; "" is a name left out
Names == {"", "p", "q"}

NoHandle == [kind |-> "None", id |-> 0]

NORELAY == Str("NORELAY")

\* messages handed to send
Envelopes ==
    {MessageObject(Str("A"), Str("B"), Str("hi")),
     MessageObject(Str("A"), NORELAY, Str("ctl")),
     MessageObject(Str("B"), Null, Str("yo"))}

\* what a pipe end may put on the wire: serialized envelopes (a pipe client
\* signs with its own name), a document with a key missing, broken text and,
\* from the server, empty text
MissingText == json_dumps(Obj(<<Pair("source", Str("A")), Pair("content", Str("hi"))>>))
BrokenText == <<LBrace, Tok("str", "not json")>>
PeerNames == <<"P1", "P2", "P3", "P4">>
PeerTexts(p) == {to_json(MessageObject(Str(PeerNames[p]), Str("B"), Str("hi"))), MissingText}
ServerTexts ==
    {to_json(MessageObject(Str("S"), Str("C"), Str("ping"))), BrokenText, <<>>}

NoFault == [p \in Peers |-> "ok"]

\* every call: the history of calls, and the result of the call before is gone
Called(name) == op' = name /\ ncalls' = ncalls + 1

\* ------------------------------------------------------ NamedPipeInterface
is_server == mode = "SERVER"

\* not self.pipe_handle or not self.mode (a wpipe channel object is true)
Unusable == pipe_handle = NoHandle \/ mode = "None"

\* _handle_name: [exc, name, pipe_name]; a name given is stored before returning
handle_name(name) ==
    IF name = ""
    THEN IF pipe_name = ""
         THEN [exc |-> "UnboundLocalError", name |-> "", pipe_name |-> pipe_name]
         ELSE [exc |-> "", name |-> pipe_name, pipe_name |-> pipe_name]
    ELSE [exc |-> "", name |-> name, pipe_name |-> name]

\* if self.pipe_handle != None
AlreadyBoundNever == FALSE
AlreadyBound == pipe_handle # NoHandle

\* bind: the name, the refusal when a channel exists (OperationalError is
\* defined nowhere, so the raise statement itself ends with NameError), the
\* constructor wpipe.Server, which may fail, and the mode
bind(name) ==
    LET h == handle_name(name)
    IN  /\ Called("bind")
        /\ pipe_name' = h.pipe_name
        /\ IF h.exc # ""
           THEN raised' = h.exc /\ UNCHANGED <<mode, pipe_handle, opened>>
           ELSE IF AlreadyBound
           THEN raised' = "NameError" /\ UNCHANGED <<mode, pipe_handle, opened>>
           ELSE \/ /\ opened' = opened + 1
                   /\ pipe_handle' = [kind |-> "Server", id |-> opened + 1]
                   /\ mode' = "SERVER"
                   /\ raised' = ""
                \/ /\ raised' = "PipeError"
                   /\ UNCHANGED <<mode, pipe_handle, opened>>
        /\ returnvalue' = <<>> /\ recv_seen' = NoFault
        /\ UNCHANGED <<closed, npeers, inbox, client_written, pipe_in, nwrites,
                       pipe_written, send_log>>

\* connect: as bind, with wpipe.Client and the mode CLIENT
connect(name) ==
    LET h == handle_name(name)
    IN  /\ Called("connect")
        /\ pipe_name' = h.pipe_name
        /\ IF h.exc # ""
           THEN raised' = h.exc /\ UNCHANGED <<mode, pipe_handle, opened>>
           ELSE IF AlreadyBound
           THEN raised' = "NameError" /\ UNCHANGED <<mode, pipe_handle, opened>>
           ELSE \/ /\ opened' = opened + 1
                   /\ pipe_handle' = [kind |-> "Client", id |-> opened + 1]
                   /\ mode' = "CLIENT"
                   /\ raised' = ""
                \/ /\ raised' = "PipeError"
                   /\ UNCHANGED <<mode, pipe_handle, opened>>
        /\ returnvalue' = <<>> /\ recv_seen' = NoFault
        /\ UNCHANGED <<closed, npeers, inbox, client_written, pipe_in, nwrites,
                       pipe_written, send_log>>

\* message_object.destination != "NORELAY"
RelayedAlways(message_object) == TRUE
Relayed(message_object) == message_object.destination # NORELAY

NoWrites == [p \in Peers |-> <<>>]

\* the fan-out loop `for client in self.pipe_handle: client.write(...)`: the
\* write to client k raises (k = 0: none does) and ends the loop
FanOutIsolated(text, k) ==
    [p \in Peers |-> IF p <= npeers /\ p # k THEN <<text>> ELSE <<>>]
FanOut(text, k) ==
    [p \in Peers |-> IF p <= npeers /\ (k = 0 \/ p < k) THEN <<text>> ELSE <<>>]

\* elif not self.is_server(): the destination is not looked at
ToServerIfRelayed(message_object) == ~is_server /\ Relayed(message_object)
ToServer(message_object) == ~is_server

\* send; a write on a channel that was closed raises
send(message_object) ==
    /\ Called("send")
    /\ send_log' = Append(send_log, message_object)
    /\ IF Unusable
       THEN raised' = "NameError" /\ client_written' = NoWrites /\ UNCHANGED pipe_written
       ELSE IF is_server /\ Relayed(message_object)
       THEN \E k \in 0..npeers :
               /\ (closed > 0 /\ npeers > 0) => k = 1
               /\ client_written' = FanOut(to_json(message_object), k)
               /\ raised' = IF k = 0 THEN "" ELSE "PipeError"
               /\ UNCHANGED pipe_written
       ELSE IF ToServer(message_object)
       THEN \/ /\ closed = 0
               /\ pipe_written' = Append(pipe_written, to_json(message_object))
               /\ raised' = ""
               /\ client_written' = NoWrites
            \/ /\ raised' = "PipeError"
               /\ client_written' = NoWrites /\ UNCHANGED pipe_written
       ELSE raised' = "" /\ client_written' = NoWrites /\ UNCHANGED pipe_written
    /\ returnvalue' = <<>> /\ recv_seen' = NoFault
    /\ UNCHANGED <<mode, pipe_name, pipe_handle, opened, closed, npeers, inbox, pipe_in,
                   nwrites>>

\* one turn of the SERVER loop of recv for client p: what it adds to
\* returnvalue.  canread() or read() may raise (fault[p] = "raises"), from_json
\* may raise; the except clause swallows all three and the loop goes on.
RecvOne(p, fault) ==
    IF fault[p] # "ok" THEN <<>>
    ELSE IF inbox[p] = <<>> THEN <<>>
    ELSE LET parsed == from_json(Head(inbox[p]))
         IN  IF parsed.exc # "" THEN <<>> ELSE <<parsed.obj>>

\* a turn that raised: the loop goes on with the next client
TurnFailed(p, fault) ==
    \/ fault[p] # "ok"
    \/ inbox[p] # <<>> /\ from_json(Head(inbox[p])).exc # ""

RECURSIVE RecvLoopAborting(_, _)
RecvLoopAborting(p, fault) ==
    IF p > npeers \/ TurnFailed(p, fault) THEN <<>>
    ELSE RecvOne(p, fault) \o RecvLoopAborting(p + 1, fault)

RECURSIVE RecvLoop(_, _)
RecvLoop(p, fault) ==
    IF p > npeers THEN <<>> ELSE RecvOne(p, fault) \o RecvLoop(p + 1, fault)

\* the list recv returns in the SERVER mode
ServerReturnAborting(fault) == RecvLoopAborting(1, fault)
ServerReturn(fault) == RecvLoop(1, fault)

\* what client.read() takes off the pipe of client p
AfterRead(p, fault) ==
    IF p <= npeers /\ fault[p] = "ok" /\ inbox[p] # <<>> THEN Tail(inbox[p]) ELSE inbox[p]

\* recv; a read on a channel that was closed raises
recv ==
    /\ Called("recv")
    /\ IF Unusable
       THEN /\ raised' = "NameError"
            /\ returnvalue' = <<>> /\ recv_seen' = NoFault
            /\ UNCHANGED <<inbox, pipe_in>>
       ELSE IF closed > 0
       THEN /\ raised' = "PipeError"
            /\ returnvalue' = <<>> /\ recv_seen' = NoFault
            /\ UNCHANGED <<inbox, pipe_in>>
       ELSE IF is_server
       THEN \* waitfordata() returns once some client has written
            /\ \E p \in 1..npeers : inbox[p] # <<>>
            /\ \E fault \in [Peers -> {"ok", "raises"}] :
                  /\ \A p \in Peers : p > npeers => fault[p] = "ok"
                  /\ returnvalue' = ServerReturn(fault)
                  /\ inbox' = [p \in Peers |-> AfterRead(p, fault)]
                  /\ recv_seen' = fault
            /\ raised' = ""
            /\ UNCHANGED pipe_in
       ELSE \* the polling loop ends once the server has written
            /\ pipe_in # <<>>
            /\ pipe_in' = Tail(pipe_in)
            /\ LET server_message == Head(pipe_in)
                   parsed == from_json(server_message)
               IN  IF server_message = <<>>
                   THEN raised' = "" /\ returnvalue' = <<>>
                   ELSE IF parsed.exc # ""
                   THEN raised' = parsed.exc /\ returnvalue' = <<>>
                   ELSE raised' = "" /\ returnvalue' = <<parsed.obj>>
            /\ recv_seen' = NoFault
            /\ UNCHANGED inbox
    /\ UNCHANGED <<mode, pipe_name, pipe_handle, opened, closed, npeers,
                   client_written, nwrites, pipe_written, send_log>>

\* close: self.pipe_handle.close(); None has no close attribute
close ==
    /\ Called("close")
    /\ IF pipe_handle = NoHandle
       THEN raised' = "AttributeError" /\ UNCHANGED closed
       ELSE raised' = "" /\ closed' = closed + 1
    /\ returnvalue' = <<>> /\ recv_seen' = NoFault
    /\ UNCHANGED <<mode, pipe_name, pipe_handle, opened, npeers, inbox, client_written,
                   pipe_in, nwrites, pipe_written, send_log>>

\* ------------------------------------------------ the other ends of the pipe
\* a pipe client connects to the bound server
PeerConnects ==
    /\ pipe_handle.kind = "Server" /\ closed = 0
    /\ npeers < MaxPeers
    /\ npeers' = npeers + 1
    /\ UNCHANGED <<mode, pipe_name, pipe_handle, opened, closed, inbox, client_written,
                   pipe_in, nwrites, pipe_written, raised, returnvalue, op, ncalls,
                   send_log, recv_seen>>

\* a connected pipe client writes to the server once its last message was read
PeerWrites ==
    /\ pipe_handle.kind = "Server" /\ closed = 0
    /\ \E p \in 1..npeers : \E text \in PeerTexts(p) :
          /\ inbox[p] = <<>>
          /\ inbox' = [inbox EXCEPT ![p] = Append(@, text)]
    /\ UNCHANGED <<mode, pipe_name, pipe_handle, opened, closed, npeers, client_written,
                   pipe_in, nwrites, pipe_written, raised, returnvalue, op, ncalls,
                   send_log, recv_seen>>

\* the pipe server writes to this process in the CLIENT role
ServerWrites ==
    /\ pipe_handle.kind = "Client" /\ closed = 0
    /\ pipe_in = <<>>
    /\ nwrites < MaxBatches
    /\ nwrites' = nwrites + 1
    /\ \E text \in ServerTexts : pipe_in' = Append(pipe_in, text)
    /\ UNCHANGED <<mode, pipe_name, pipe_handle, opened, closed, npeers, inbox,
                   client_written, pipe_written, raised, returnvalue, op, ncalls,
                   send_log, recv_seen>>

\* an HTTP request context between two requests
Idle == [pc |-> "idle", received_message |-> Doc(Null), successful |-> TRUE]

\* ------------------------------------------- a driver of one session object
\* NamedPipeInterface() on Windows, then any calls in any order
TInit ==
    /\ mode = "None"
    /\ pipe_name = ""
    /\ pipe_handle = NoHandle
    /\ opened = 0
    /\ closed = 0
    /\ npeers = 0
    /\ inbox = [p \in Peers |-> <<>>]
    /\ client_written = [p \in Peers |-> <<>>]
    /\ pipe_in = <<>>
    /\ nwrites = 0
    /\ pipe_written = <<>>
    /\ raised = ""
    /\ returnvalue = <<>>
    /\ op = ""
    /\ ncalls = 0
    /\ send_log = <<>>
    /\ recv_seen = NoFault

\* from_json was not called
NotDecoded == [exc |-> "", obj |-> NoMessage]

\* the program's own state before __main__ runs
PInit ==
    /\ pipe_object = "None"
    /\ main_exc = ""
    /\ alive = FALSE
    /\ message_queue = <<>>
    /\ worker_pc = "unstarted"
    /\ message = NoMessage
    /\ head_read = <<>>
    /\ worker_exc = ""
    /\ handlers = [h \in 1..MaxHandlers |-> Idle]
    /\ nrequests = 0
    /\ push_log = <<>>
    /\ pop_log = <<>>
    /\ client_active = FALSE
    /\ messages = <<>>
    /\ stdout = <<>>

\* no caller of MessageObject alone
CInit ==
    /\ codec_pc = "unused"
    /\ original = NoMessage
    /\ json_text = <<>>
    /\ decoded = NotDecoded

InitSession ==
    /\ TInit /\ PInit /\ CInit
    /\ main_pc = "driver" /\ args_mode = "" /\ os_name = "nt"

CallBind ==
    /\ ncalls < MaxCalls
    /\ \E name \in Names : bind(name)
    /\ UNCHANGED <<mainv, rootv, clientv>>
    /\ UNCHANGED codecv

CallConnect ==
    /\ ncalls < MaxCalls
    /\ \E name \in Names : connect(name)
    /\ UNCHANGED <<mainv, rootv, clientv>>
    /\ UNCHANGED codecv

CallSend ==
    /\ ncalls < MaxCalls
    /\ \E m \in Envelopes : send(m)
    /\ UNCHANGED <<mainv, rootv, clientv>>
    /\ UNCHANGED codecv

CallRecv ==
    /\ ncalls < MaxCalls
    /\ recv
    /\ UNCHANGED <<mainv, rootv, clientv>>
    /\ UNCHANGED codecv

CallClose ==
    /\ ncalls < MaxCalls
    /\ closed = 0
    /\ close
    /\ UNCHANGED <<mainv, rootv, clientv>>
    /\ UNCHANGED codecv

PeerConnect ==
    /\ PeerConnects
    /\ UNCHANGED <<mainv, rootv, clientv>>
    /\ UNCHANGED codecv

PeerWrite ==
    /\ PeerWrites
    /\ UNCHANGED <<mainv, rootv, clientv>>
    /\ UNCHANGED codecv

ServerWrite ==
    /\ ServerWrites
    /\ UNCHANGED <<mainv, rootv, clientv>>
    /\ UNCHANGED codecv

NextSession ==
    \/ CallBind
    \/ CallConnect
    \/ CallSend
    \/ CallRecv
    \/ CallClose
    \/ PeerConnect
    \/ PeerWrite
    \/ ServerWrite

SpecSession == InitSession /\ [][NextSession]_vars

\* ------------------------------------------------------------------- Root
\* the bodies HTTP clients post: cherrypy.request.json is whatever JSON
\* document the request carried
BodyRelay ==
    Obj(<<Pair("source", Str("A")), Pair("destination", Str("B")),
          Pair("content", Str("hi"))>>)
BodyNoRelay ==
    Obj(<<Pair("destination", NORELAY), Pair("source", Str("A")),
          Pair("content", Str("ctl"))>>)
BodyMissing == Obj(<<Pair("source", Str("A")), Pair("content", Str("hi"))>>)
BodyList == Arr(<<Str("source"), Str("destination"), Str("content")>>)
Bodies == {BodyRelay, BodyNoRelay, BodyMissing, BodyList}

\* post_interface, lines 170-178: operation_result["successful"] after the
\* loop over validate_set
ValidatedAny(received_message) ==
    \E key \in {"source", "destination", "content"} : Contains(received_message, key)
Validated(received_message) ==
    \A key \in {"source", "destination", "content"} : Contains(received_message, key)

\* post_interface up to the test of the result: a request context takes a
\* request and validates its body
HandlerReceive(h) ==
    /\ main_pc = "serving"
    /\ handlers[h].pc = "idle"
    /\ nrequests < MaxRequests
    /\ nrequests' = nrequests + 1
    /\ \E received_message \in Bodies :
          handlers' = [handlers EXCEPT ![h] =
                          [pc |-> "validated", received_message |-> received_message,
                           successful |-> Validated(received_message)]]
    /\ UNCHANGED <<alive, message_queue, worker_pc, message, head_read, worker_exc,
                   push_log, pop_log>>
    /\ UNCHANGED <<tvars, mainv, clientv>>
    /\ UNCHANGED codecv

\* self.message_queue.append(json.dumps(received_message)), when successful
AppendedAlone(queue, received_message) == <<json_dumps(received_message)>>
Appended(queue, received_message) == Append(queue, json_dumps(received_message))

\* post_interface from the test of the result to the return of operation_result
HandlerRespond(h) ==
    /\ handlers[h].pc = "validated"
    /\ IF handlers[h].successful
       THEN /\ message_queue' = Appended(message_queue, handlers[h].received_message)
            /\ push_log' = Append(push_log, handlers[h].received_message)
       ELSE UNCHANGED <<message_queue, push_log>>
    /\ handlers' = [handlers EXCEPT ![h] =
                       [pc |-> "idle", received_message |-> Doc(Null),
                        successful |-> handlers[h].successful]]
    /\ UNCHANGED <<alive, worker_pc, message, head_read, worker_exc, nrequests, pop_log>>
    /\ UNCHANGED <<tvars, mainv, clientv>>
    /\ UNCHANGED codecv

\* the process still runs: a daemon thread ends with it
Running == main_pc # "exited"

\* _message_thread: `while self.alive:` and `if len(self.message_queue):`;
\* with nothing queued the thread sleeps
WorkerLoopUntilEmpty ==
    /\ main_pc # "exited"
    /\ worker_pc = "loop"
    /\ worker_pc' = IF ~alive \/ Len(message_queue) = 0 THEN "done" ELSE "try"
    /\ worker_exc' = ""
    /\ UNCHANGED <<alive, message_queue, message, head_read, handlers, nrequests,
                   push_log, pop_log>>
    /\ UNCHANGED <<tvars, mainv, clientv, codecv>>
WorkerLoop ==
    /\ Running
    /\ worker_pc = "loop"
    /\ worker_pc' = IF ~alive THEN "done"
                    ELSE IF Len(message_queue) # 0 THEN "try" ELSE "sleep"
    /\ worker_exc' = ""
    /\ UNCHANGED <<alive, message_queue, message, head_read, handlers, nrequests,
                   push_log, pop_log>>
    /\ UNCHANGED <<tvars, mainv, clientv>>
    /\ UNCHANGED codecv

\* time.sleep(0.5) returns
WorkerWake ==
    /\ Running
    /\ worker_pc = "sleep"
    /\ worker_pc' = "loop"
    /\ UNCHANGED <<alive, message_queue, message, head_read, worker_exc, handlers,
                   nrequests, push_log, pop_log>>
    /\ UNCHANGED <<tvars, mainv, clientv>>
    /\ UNCHANGED codecv

\* message = MessageObject.from_json(self.message_queue[0])
WorkerParse ==
    /\ Running
    /\ worker_pc = "try"
    /\ LET parsed == from_json(message_queue[1])
       IN  /\ head_read' = message_queue[1]
           /\ message' = IF parsed.exc # "" THEN message ELSE parsed.obj
           /\ worker_exc' = parsed.exc
           /\ worker_pc' = IF parsed.exc # "" THEN "except" ELSE "send"
    /\ UNCHANGED <<alive, message_queue, handlers, nrequests, push_log, pop_log>>
    /\ UNCHANGED <<tvars, mainv, clientv>>
    /\ UNCHANGED codecv

\* self.server.send(message)
WorkerSend ==
    /\ Running
    /\ worker_pc = "send"
    /\ send(message)
    /\ worker_exc' = raised'
    /\ worker_pc' = IF raised' # "" THEN "except" ELSE "finally"
    /\ UNCHANGED <<alive, message_queue, message, head_read, handlers, nrequests,
                   push_log, pop_log>>
    /\ UNCHANGED <<mainv, clientv>>
    /\ UNCHANGED codecv

\* where the thread goes after the except clause: to the finally clause
AfterExceptRetry == "loop"
AfterExcept == "finally"

\* except Exception: the print of the exception and of self.message_queue[0]
WorkerExcept ==
    /\ Running
    /\ worker_pc = "except"
    /\ worker_pc' = AfterExcept
    /\ UNCHANGED <<alive, message_queue, message, head_read, worker_exc, handlers,
                   nrequests, push_log, pop_log>>
    /\ UNCHANGED <<tvars, mainv, clientv>>
    /\ UNCHANGED codecv

\* self.message_queue.pop(0)
PoppedLast(queue) == SubSeq(queue, 1, Len(queue) - 1)
Popped(queue) == Tail(queue)

\* what pop(0) returns
PopItem(queue) == Head(queue)

\* finally: self.message_queue.pop(0)
WorkerPop ==
    /\ Running
    /\ worker_pc = "finally"
    /\ pop_log' = Append(pop_log, PopItem(message_queue))
    /\ message_queue' = Popped(message_queue)
    /\ worker_pc' = "loop"
    /\ UNCHANGED <<alive, message, head_read, worker_exc, handlers, nrequests, push_log>>
    /\ UNCHANGED <<tvars, mainv, clientv>>
    /\ UNCHANGED codecv

\* ------------------------------------------------------------------- Main
\* --name is required
ArgsName == "p"

\* the acknowledgement of _client_thread
acknowledgement_message == MessageObject(Str("PIPECLIENT"), NORELAY, Str("Acknowledged"))

\* self.pipe_object = NamedPipeInterface(): _ensure_os_is_windows may raise
MainConstruct ==
    /\ main_pc = "start"
    /\ IF os_name = "nt"
       THEN pipe_object' = "NamedPipeInterface" /\ main_pc' = "constructed"
                                                /\ UNCHANGED main_exc
       ELSE main_exc' = "OSError" /\ main_pc' = "finally" /\ UNCHANGED pipe_object
    /\ UNCHANGED <<args_mode, os_name>>
    /\ UNCHANGED <<tvars, rootv, clientv>>
    /\ UNCHANGED codecv

\* if args.mode == "client"
IsClientMode(m) == m = "client"

\* entry_point, the client branch: client_active and connect
MainConnect ==
    /\ main_pc = "constructed"
    /\ IsClientMode(args_mode)
    /\ client_active' = TRUE
    /\ connect(ArgsName)
    /\ IF raised' # ""
       THEN main_exc' = raised' /\ main_pc' = "finally"
       ELSE main_pc' = "client_recv" /\ UNCHANGED main_exc
    /\ UNCHANGED <<args_mode, os_name, pipe_object, messages, stdout>>
    /\ UNCHANGED rootv
    /\ UNCHANGED codecv

\* entry_point, the other branch: bind
MainBind ==
    /\ main_pc = "constructed"
    /\ ~IsClientMode(args_mode)
    /\ bind(ArgsName)
    /\ IF raised' # ""
       THEN main_exc' = raised' /\ main_pc' = "finally"
       ELSE main_pc' = "bound" /\ UNCHANGED main_exc
    /\ UNCHANGED <<args_mode, os_name, pipe_object>>
    /\ UNCHANGED <<rootv, clientv>>
    /\ UNCHANGED codecv

\* Root(self.pipe_object) and start_message_thread
start_message_thread ==
    /\ main_pc = "bound"
    /\ alive' = TRUE
    /\ message_queue' = <<>>
    /\ worker_pc' = "loop"
    /\ main_pc' = "started"
    /\ UNCHANGED <<args_mode, os_name, pipe_object, main_exc>>
    /\ UNCHANGED <<message, head_read, worker_exc, handlers, nrequests, push_log,
                   pop_log>>
    /\ UNCHANGED <<tvars, clientv>>
    /\ UNCHANGED codecv

\* cherrypy.quickstart(self.root_object): requests are served from here on
MainQuickstart ==
    /\ main_pc = "started"
    /\ main_pc' = "serving"
    /\ UNCHANGED <<args_mode, os_name, pipe_object, main_exc>>
    /\ UNCHANGED <<tvars, rootv, clientv>>
    /\ UNCHANGED codecv

\* if messages: the acknowledgement and the prints, else the next recv
AfterRecvAlways(ms) == "client_send"
AfterRecv(ms) == IF ms # <<>> THEN "client_send" ELSE "client_recv"

\* _client_thread: messages = self.pipe_object.recv(); an exception of recv
\* leaves the loop and entry_point
ClientRecv ==
    /\ main_pc = "client_recv"
    /\ client_active
    /\ recv
    /\ messages' = returnvalue'
    /\ IF raised' # ""
       THEN main_exc' = raised' /\ main_pc' = "finally"
       ELSE main_pc' = AfterRecv(returnvalue') /\ UNCHANGED main_exc
    /\ UNCHANGED <<args_mode, os_name, pipe_object, client_active, stdout>>
    /\ UNCHANGED rootv
    /\ UNCHANGED codecv

\* self.pipe_object.send(acknowledgement_message)
ClientSend ==
    /\ main_pc = "client_send"
    /\ send(acknowledgement_message)
    /\ IF raised' # ""
       THEN main_exc' = raised' /\ main_pc' = "finally"
       ELSE main_pc' = "client_print" /\ UNCHANGED main_exc
    /\ UNCHANGED <<args_mode, os_name, pipe_object>>
    /\ UNCHANGED <<rootv, clientv>>
    /\ UNCHANGED codecv

\* for message in messages: print(message.to_json())
PrintedObject(out, ms) == out \o [i \in 1..Len(ms) |-> <<Tok("repr", "MessageObject")>>]
Printed(out, ms) == out \o [i \in 1..Len(ms) |-> to_json(ms[i])]

ClientPrint ==
    /\ main_pc = "client_print"
    /\ stdout' = Printed(stdout, messages)
    /\ main_pc' = "client_recv"
    /\ UNCHANGED <<args_mode, os_name, pipe_object, main_exc, client_active, messages>>
    /\ UNCHANGED <<tvars, rootv>>
    /\ UNCHANGED codecv

\* the process is told to stop: quickstart returns after the engine stopped,
\* the client loop is left by KeyboardInterrupt
MainInterrupt ==
    /\ main_pc \in {"serving", "client_recv", "client_send", "client_print"}
    /\ \A h \in 1..MaxHandlers : handlers[h].pc = "idle"
    /\ main_exc' = IF main_pc = "serving" THEN "" ELSE "KeyboardInterrupt"
    /\ main_pc' = "finally"
    /\ UNCHANGED <<args_mode, os_name, pipe_object>>
    /\ UNCHANGED <<tvars, rootv, clientv>>
    /\ UNCHANGED codecv

\* finally: main_program.quit(), that is self.pipe_object.close(); None has
\* no close attribute.  The process ends with the exception of quit, or else
\* with the one that left entry_point.
quit ==
    /\ main_pc = "finally"
    /\ IF pipe_object = "None"
       THEN main_exc' = "AttributeError" /\ UNCHANGED tvars
       ELSE close /\ main_exc' = IF raised' # "" THEN raised' ELSE main_exc
    /\ main_pc' = "exited"
    /\ UNCHANGED <<args_mode, os_name, pipe_object>>
    /\ UNCHANGED <<rootv, clientv>>
    /\ UNCHANGED codecv

\* ---------------------------------------------- a caller of MessageObject
\* the values a caller puts in the fields of a MessageObject: strings, the
\* empty one among them, and None
StringPool == <<"A", "B", "NORELAY", "", "PIPECLIENT">>
FieldValues ==
    {Str(StringPool[i]) : i \in {j \in 1..Len(StringPool) : j <= MaxStrings}} \cup {Null}

\* the keys of the documents given to from_json, in the two orders they are
\* written in
DocumentKeys == {"source", "destination", "content", "id"}
KeyOrders ==
    {<<"source", "destination", "content", "id">>,
     <<"id", "content", "destination", "source">>}

\* the JSON object with the keys of `keys`, in the order `order`, each with
\* the value val
ObjectWith(keys, order, val) ==
    Obj(SelectSeq([i \in 1..Len(order) |-> Pair(order[i], val)],
                  LAMBDA pr : pr.key \in keys))

\* a JSON object in which one key is written twice: the later value counts
TwiceText ==
    <<LBrace, Tok("str", "source"), Colon, Tok("str", "A"), Comma,
      Tok("str", "destination"), Colon, Tok("str", "B"), Comma,
      Tok("str", "content"), Colon, Tok("str", "hi"), Comma,
      Tok("str", "source"), Colon, Tok("null", ""), RBrace>>

\* the texts given to from_json: JSON objects with any of the keys, their
\* values strings or null, a list, a string, null, and text that is no JSON
Documents ==
    {json_dumps(ObjectWith(keys, order, val)) :
        keys \in SUBSET DocumentKeys, order \in KeyOrders, val \in {Str("x"), Null}}
    \cup {json_dumps(BodyList), json_dumps(Doc(Str("source"))), json_dumps(Doc(Null)),
          TwiceText, BrokenText}

\* message_object = MessageObject(source, destination, content)
CodecConstruct ==
    /\ codec_pc = "start"
    /\ \E source \in FieldValues, destination \in FieldValues, content \in FieldValues :
          original' = MessageObject(source, destination, content)
    /\ codec_pc' = "constructed"
    /\ UNCHANGED <<json_text, decoded>>
    /\ UNCHANGED <<tvars, mainv, rootv, clientv>>

\* message_object.to_json()
CodecSerialize ==
    /\ codec_pc = "constructed"
    /\ json_text' = to_json(original)
    /\ codec_pc' = "serialized"
    /\ UNCHANGED <<original, decoded>>
    /\ UNCHANGED <<tvars, mainv, rootv, clientv>>

\* a text arrives from elsewhere
CodecReceive ==
    /\ codec_pc = "start"
    /\ \E text \in Documents : json_text' = text
    /\ codec_pc' = "received"
    /\ UNCHANGED <<original, decoded>>
    /\ UNCHANGED <<tvars, mainv, rootv, clientv>>

\* MessageObject.from_json(json_text), of a text received or of the text
\* to_json returned
CodecParse ==
    /\ codec_pc \in {"received", "serialized"}
    /\ decoded' = from_json(json_text)
    /\ codec_pc' = IF codec_pc = "serialized" THEN "reparsed" ELSE "parsed"
    /\ UNCHANGED <<original, json_text>>
    /\ UNCHANGED <<tvars, mainv, rootv, clientv>>

InitCodec ==
    /\ TInit /\ PInit
    /\ main_pc = "driver" /\ args_mode = "" /\ os_name = "nt"
    /\ codec_pc = "start"
    /\ original = NoMessage
    /\ json_text = <<>>
    /\ decoded = NotDecoded

NextCodec ==
    \/ CodecConstruct
    \/ CodecSerialize
    \/ CodecReceive
    \/ CodecParse

SpecCodec == InitCodec /\ [][NextCodec]_vars

\* ------------------------------------------------------- the specifications
InitProgram(modes, oses) ==
    /\ TInit /\ PInit /\ CInit
    /\ main_pc = "start"
    /\ args_mode \in modes
    /\ os_name \in oses

\* the process started with --mode server on Windows
InitServer == InitProgram({"server"}, {"nt"})

Handler == \E h \in 1..MaxHandlers : HandlerReceive(h) \/ HandlerRespond(h)

Worker == WorkerLoop \/ WorkerWake \/ WorkerParse \/ WorkerSend \/ WorkerExcept \/ WorkerPop

NextServing ==
    \/ MainConstruct
    \/ MainBind
    \/ start_message_thread
    \/ MainQuickstart
    \/ PeerConnect
    \/ \E h \in 1..MaxHandlers : HandlerReceive(h)
    \/ \E h \in 1..MaxHandlers : HandlerRespond(h)
    \/ WorkerLoop
    \/ WorkerWake
    \/ WorkerParse
    \/ WorkerSend
    \/ WorkerExcept
    \/ WorkerPop

NextServer == NextServing \/ MainInterrupt \/ quit

SpecServer == InitServer /\ [][NextServer]_vars

\* the serving process with its threads scheduled fairly: the thread of
\* _message_thread and the request contexts each get to run
SpecServing ==
    /\ InitServer
    /\ [][NextServing]_vars
    /\ WF_vars(Worker)
    /\ WF_vars(Handler)
    /\ WF_vars(MainConstruct \/ MainBind \/ start_message_thread \/ MainQuickstart)

\* the process started with --mode client on Windows
InitClient == InitProgram({"client"}, {"nt"})

NextClient ==
    \/ MainConstruct
    \/ MainConnect
    \/ ServerWrite
    \/ ClientRecv
    \/ ClientSend
    \/ ClientPrint
    \/ MainInterrupt
    \/ quit

SpecClient == InitClient /\ [][NextClient]_vars

\* the process, started in any way
Init == InitProgram({"client", "server", "c", "s"}, {"nt", "posix"})

Next == NextServer \/ MainConnect \/ ServerWrite \/ ClientRecv \/ ClientSend \/ ClientPrint

Spec == Init /\ [][Next]_vars

\* ---------------------------------------------------- a holder of the Root
\* Root.alive is an attribute of the object cherrypy serves.  piperelay.py
\* sets it in start_message_thread and clears it nowhere; here whoever holds
\* the Root object clears it at some time after the thread was started.
ClearAlive ==
    /\ worker_pc \notin {"unstarted", "done"}
    /\ alive
    /\ alive' = FALSE
    /\ UNCHANGED <<message_queue, worker_pc, message, head_read, worker_exc, handlers,
                   nrequests, push_log, pop_log>>
    /\ UNCHANGED <<tvars, mainv, clientv, codecv>>

NextRoot ==
    \/ MainConstruct
    \/ MainBind
    \/ start_message_thread
    \/ MainQuickstart
    \/ PeerConnect
    \/ \E h \in 1..MaxHandlers : HandlerReceive(h)
    \/ \E h \in 1..MaxHandlers : HandlerRespond(h)
    \/ WorkerLoop
    \/ WorkerWake
    \/ WorkerParse
    \/ WorkerSend
    \/ WorkerExcept
    \/ WorkerPop
    \/ ClearAlive

SpecRoot == InitServer /\ [][NextRoot]_vars

\* ------------------------------------------------------------------ claims
IsPrefix(a, b) == Len(a) <= Len(b) /\ a = SubSeq(b, 1, Len(a))

\* the envelopes of the bodies of `bodies` whose payload from_json accepts
RECURSIVE ParseableEnvelopes(_)
ParseableEnvelopes(bodies) ==
    IF bodies = <<>> THEN <<>>
    ELSE LET parsed == from_json(json_dumps(Head(bodies)))
         IN  (IF parsed.exc = "" THEN <<parsed.obj>> ELSE <<>>)
             \o ParseableEnvelopes(Tail(bodies))

Payloads(bodies) == [i \in 1..Len(bodies) |-> json_dumps(bodies[i])]

\* C1: the send calls of the drain thread carry the parseable payloads in
\* the order of their appends: at any time the messages passed to send are a
\* prefix of the parseable payloads appended so far, none skipped, none
\* repeated, none out of order.
C1_SendsInAppendOrder == IsPrefix(send_log, ParseableEnvelopes(push_log))

\* three payloads were appended, an unparseable one between two parseable
\* ones, and both parseable ones were passed to send
C1_Witness ==
    /\ push_log = <<BodyRelay, BodyList, BodyNoRelay>>
    /\ Len(send_log) = 2
    /\ send_log[1] # send_log[2]

\* C2: with request contexts appending while the drain thread runs its steps,
\* every appended payload is removed exactly once: what was appended is what
\* was removed followed by what is queued, and between the read of the head
\* and its removal the head is the payload that was read.
C2_Conservation ==
    /\ Payloads(push_log) = pop_log \o message_queue
    /\ worker_pc \in {"send", "except", "finally"} =>
          message_queue # <<>> /\ Head(message_queue) = head_read
    /\ (message_queue = <<>> /\ \A h \in 1..MaxHandlers : handlers[h].pc = "idle") =>
          Len(pop_log) = Len(push_log)

\* the drain thread is about to remove a head while another payload was
\* appended behind it and a request context is about to append a third
C2_Witness ==
    /\ worker_pc = "finally"
    /\ Len(pop_log) = 0
    /\ Len(message_queue) = 2
    /\ \E h \in 1..MaxHandlers : handlers[h].pc = "validated" /\ handlers[h].successful

\* a step that is a send call on a session in the SERVER mode
ServerSendStep == ncalls' = ncalls + 1 /\ op' = "send" /\ mode = "SERVER"

\* the message of the send call a step makes
SentNow == send_log'[Len(send_log')]

\* C3: in the SERVER mode a send whose destination is "NORELAY" writes to no
\* pipe client, however many are connected, and returns; a send with any other
\* destination runs the fan-out: it writes to every connected client or ends
\* with the exception of a write.
C3_NoRelayWritesNothing ==
    [][ServerSendStep =>
          IF SentNow.destination = Str("NORELAY")
          THEN /\ \A p \in Peers : client_written'[p] = <<>>
               /\ pipe_written' = pipe_written
               /\ raised' = ""
          ELSE \/ raised' # ""
               \/ \A p \in 1..npeers : client_written'[p] = <<to_json(SentNow)>>]_vars

\* after a send that was relayed, a NORELAY send was made in the SERVER mode;
\* every client is connected and none was written to
C3_Witness ==
    /\ mode = "SERVER" /\ op = "send" /\ raised = ""
    /\ npeers = MaxPeers
    /\ Len(send_log) = 2
    /\ send_log[1].destination = Str("B")
    /\ send_log[2].destination = Str("NORELAY")
    /\ \A p \in Peers : client_written[p] = <<>>

\* the pipe clients whose turn in the SERVER loop of recv yields a message:
\* no fault in canread or read, something to read, and it parses
GoodPeers(fault) ==
    {p \in 1..npeers : fault[p] = "ok" /\ inbox[p] # <<>>
                       /\ from_json(Head(inbox[p])).exc = ""}

\* C6: a SERVER recv in which the turn of some client fails (the readability
\* check or the read raises, or the text does not parse) does not raise, and
\* returns the parsed message of every other client that was readable and
\* whose read and parse succeeded, and nothing else, wherever the failing
\* client stands in the enumeration.
C6_RecvIsolatesPeers ==
    [][(ncalls' = ncalls + 1 /\ op' = "recv" /\ mode = "SERVER" /\ closed = 0) =>
          /\ raised' = ""
          /\ \A p \in GoodPeers(recv_seen') :
                \E i \in 1..Len(returnvalue') :
                   returnvalue'[i] = from_json(Head(inbox[p])).obj
          /\ Len(returnvalue') = Cardinality(GoodPeers(recv_seen'))
          /\ \A p \in GoodPeers(recv_seen') : inbox'[p] = Tail(inbox[p])]_vars

\* the first client in the enumeration failed and a message of a later one
\* was returned
C6_Witness ==
    /\ mode = "SERVER" /\ op = "recv" /\ raised = ""
    /\ npeers >= 2
    /\ recv_seen[1] = "raises"
    /\ Len(returnvalue) >= 1
    /\ returnvalue[Len(returnvalue)].source = Str(PeerNames[npeers])

\* C7: in the SERVER mode a send with a destination other than "NORELAY"
\* writes to the clients in enumeration order: when the write to client k
\* raises, the call raises, every client before k got the serialized envelope
\* once and no client from k on got anything; when no write raises the call
\* returns and every connected client got the serialized envelope once.
C7_FanOutAbortsAtFailure ==
    [][(ServerSendStep /\ SentNow.destination # Str("NORELAY")) =>
          \/ /\ raised' = ""
             /\ \A p \in 1..npeers : client_written'[p] = <<to_json(SentNow)>>
          \/ /\ raised' # ""
             /\ \E k \in 1..npeers :
                   /\ \A p \in 1..(k - 1) : client_written'[p] = <<to_json(SentNow)>>
                   /\ \A p \in k..MaxPeers : client_written'[p] = <<>>]_vars

\* a fan-out that failed at the last client after it had written to the first
C7_Witness ==
    /\ mode = "SERVER" /\ op = "send" /\ raised = "PipeError" /\ closed = 0
    /\ npeers = MaxPeers
    /\ client_written[1] = <<to_json(send_log[Len(send_log)])>>
    /\ client_written[MaxPeers] = <<>>

\* mode and channel are set together
ModeWithChannel == (mode = "None") <=> (pipe_handle = NoHandle)

\* C8: over any calls of bind, connect, send, recv and close the mode changes
\* at most once, from unset to SERVER by bind or from unset to CLIENT by
\* connect; the channel is assigned at most once; and after every call the
\* mode is set exactly when the channel is.
C8_ModeSetOnce ==
    /\ []ModeWithChannel
    /\ [][/\ mode' # mode =>
                /\ mode = "None"
                /\ \/ mode' = "SERVER" /\ op' = "bind"
                   \/ mode' = "CLIENT" /\ op' = "connect"
          /\ pipe_handle' # pipe_handle => pipe_handle = NoHandle /\ opened = 0
          /\ opened' <= 1]_vars

\* a session bound as a server refused a later connect
C8_Witness ==
    /\ mode = "SERVER" /\ pipe_handle.kind = "Server"
    /\ op = "connect" /\ raised = "NameError"
    /\ ncalls = MaxCalls

\* the acknowledgement, spelled out
AckEnvelope == MessageObject(Str("PIPECLIENT"), Str("NORELAY"), Str("Acknowledged"))

\* C4: in the client loop every recv that returns messages is followed by
\* exactly one send, of the acknowledgement envelope, made before any message
\* of the batch is printed; a recv that returns nothing is followed by no
\* send and no print.  (A CLIENT recv returns at most one message, so the
\* printed lines count the batches.)
C4_AckBeforeEmission ==
    /\ [](/\ \A i \in 1..Len(send_log) : send_log[i] = AckEnvelope
          /\ main_pc = "client_recv" => Len(send_log) = Len(stdout)
          /\ main_pc = "client_send" => messages # <<>> /\ Len(send_log) = Len(stdout)
          /\ main_pc = "client_print" =>
                messages # <<>> /\ Len(send_log) = Len(stdout) + 1
                /\ op = "send" /\ raised = "")
    /\ [][/\ (ncalls' = ncalls + 1 /\ op' = "recv") =>
                /\ stdout' = stdout /\ send_log' = send_log
                /\ IF raised' = "" /\ returnvalue' # <<>>
                   THEN main_pc' = "client_send" /\ messages' = returnvalue'
                   ELSE main_pc' \in {"client_recv", "finally"}
          /\ send_log' # send_log => main_pc = "client_send" /\ stdout' = stdout
          /\ stdout' # stdout =>
                /\ main_pc = "client_print"
                /\ stdout' = stdout \o [i \in 1..Len(messages) |-> to_json(messages[i])]
                /\ send_log' = send_log]_vars

\* one batch was acknowledged and printed, and a recv that returned nothing
\* left the counts as they were
C4_Witness ==
    /\ main_pc = "client_recv"
    /\ op = "recv" /\ raised = "" /\ returnvalue = <<>>
    /\ send_log = <<AckEnvelope>>
    /\ Len(stdout) = 1

\* C5: when the payload the drain thread took fails to parse or its send
\* raises, the thread goes through the except clause to the finally clause,
\* removes that payload, once, from the head of the queue, appends nothing,
\* and is back at the head of its loop; it never ends while alive is set.
C5_BadMessageDropped ==
    /\ [](/\ alive => worker_pc # "done"
          /\ worker_pc = "except" => worker_exc # ""
          /\ Payloads(push_log) = pop_log \o message_queue)
    /\ [][/\ (worker_pc = "except" /\ worker_pc' # "except") =>
                worker_pc' = "finally" /\ message_queue' = message_queue
                                       /\ pop_log' = pop_log
          /\ (worker_pc = "finally" /\ worker_exc # "" /\ worker_pc' # "finally") =>
                /\ worker_pc' = "loop"
                /\ pop_log' = Append(pop_log, head_read)
                /\ message_queue' = Tail(message_queue)
          /\ (worker_pc \in {"try", "send"} /\ worker_exc' # "") =>
                worker_pc' = "except"]_vars

\* a payload that did not parse and one whose send raised were each removed,
\* and the payload behind them was sent
C5_Witness ==
    /\ Len(pop_log) = 3
    /\ pop_log[1] = json_dumps(BodyList)
    /\ Len(send_log) = 2
    /\ worker_pc = "loop" /\ worker_exc = ""
    /\ \E p \in 1..npeers : client_written[p] # <<>>

EnvelopeOf(body) ==
    MessageObject(GetItem(body.o, "source"), GetItem(body.o, "destination"),
                  GetItem(body.o, "content"))

\* the drain thread has nothing left to do
Drained == message_queue = <<>> /\ worker_pc \in {"loop", "sleep"}

\* C10: every payload post_interface accepted is passed to send as an
\* envelope equal to the one submitted.  Stated for the runs in which the
\* drain thread got to empty the queue: by then each accepted body has had
\* its send call.
C10_AcceptedAreSent ==
    Drained =>
       /\ Len(send_log) = Len(push_log)
       /\ \A i \in 1..Len(push_log) :
             /\ push_log[i].k = "obj"
             /\ send_log[i] = EnvelopeOf(push_log[i])

\* the same for the bodies that are JSON objects: they are the ones sent
ObjectBodies(bodies) == SelectSeq(bodies, LAMBDA b : b.k = "obj")

C10_ObjectsAreSent ==
    Drained =>
       /\ Len(send_log) = Len(ObjectBodies(push_log))
       /\ \A i \in 1..Len(send_log) : send_log[i] = EnvelopeOf(ObjectBodies(push_log)[i])

\* under fair scheduling the queue of the running server empties again and again
C10_QueueDrains == [](alive => <>Drained)
\* a step that is a send or recv call on a session that has no mode or no
\* channel
UnboundCallStep ==
    /\ ncalls' = ncalls + 1
    /\ op' \in {"send", "recv"}
    /\ (mode = "None" \/ pipe_handle = NoHandle)

\* such a call touches no pipe and leaves the session as it was
UnboundCallFrame ==
    /\ inbox' = inbox /\ pipe_in' = pipe_in /\ pipe_written' = pipe_written
    /\ \A p \in Peers : client_written'[p] = <<>>
    /\ npeers' = npeers /\ nwrites' = nwrites
    /\ mode' = mode /\ pipe_handle' = pipe_handle /\ pipe_name' = pipe_name
    /\ opened' = opened /\ closed' = closed
    /\ returnvalue' = <<>>

\* C11: a send or recv call on a session without mode or channel ends with
\* the error the program names for that state, OperationalError("Must bind or
\* connect pipe before ..."), reads, writes and polls no pipe, and leaves mode,
\* channel and stored name as they were.
C11_UnboundCallsRefused ==
    [][UnboundCallStep => raised' = "OperationalError" /\ UnboundCallFrame]_vars

\* what the code does there: the call ends with NameError, the name
\* OperationalError being defined nowhere, and has touched nothing
C11_UnboundCallsEndWithNameError ==
    [][UnboundCallStep => raised' = "NameError" /\ UnboundCallFrame]_vars

\* a step that is a bind or connect call on a session that has a channel
BoundAgainStep ==
    /\ ncalls' = ncalls + 1
    /\ op' \in {"bind", "connect"}
    /\ pipe_handle # NoHandle

\* C12: a bind or connect call made when a channel exists fails and leaves
\* the session as it was: mode, channel and the stored name keep their values,
\* also when the call was given another name.
C12_RefusedCallLeavesState ==
    [][BoundAgainStep =>
          /\ raised' # ""
          /\ mode' = mode
          /\ pipe_handle' = pipe_handle
          /\ pipe_name' = pipe_name]_vars

\* the last part of the claim by itself: the stored name changes only in a
\* bind or connect call that succeeds
C12_NameChangesOnSuccess ==
    [][pipe_name' # pipe_name =>
          ncalls' = ncalls + 1 /\ op' \in {"bind", "connect"} /\ raised' = ""]_vars

\* what the code keeps of it: the refused call fails and leaves mode and
\* channel alone, and stores the name it was given
C12_RefusedCallKeepsChannel ==
    [][BoundAgainStep =>
          /\ raised' # ""
          /\ mode' = mode
          /\ pipe_handle' = pipe_handle
          /\ opened' = opened
          /\ \E name \in Names :
                pipe_name' = IF name = "" THEN pipe_name ELSE name]_vars

\* a step that is a send call on a session in the CLIENT mode
ClientSendStep == ncalls' = ncalls + 1 /\ op' = "send" /\ mode = "CLIENT"

\* C13: in the CLIENT mode every send call makes one write of the serialized
\* envelope to the server, whatever the destination, "NORELAY" included: the
\* call returns having written that text once, or ends with the exception of
\* that write; no pipe client of a server is written to.
C13_ClientSendWritesOnce ==
    [][ClientSendStep =>
          /\ \/ /\ raised' = ""
                /\ pipe_written' = Append(pipe_written, to_json(SentNow))
             \/ /\ raised' = "PipeError"
                /\ pipe_written' = pipe_written
          /\ \A p \in Peers : client_written'[p] = <<>>]_vars

\* a client sent an envelope for "B" and then one for "NORELAY", and both
\* texts are on the pipe, in that order
C13_Witness ==
    /\ mode = "CLIENT" /\ op = "send" /\ raised = ""
    /\ Len(send_log) = 2
    /\ send_log[1].destination = Str("B")
    /\ send_log[2].destination = Str("NORELAY")
    /\ pipe_written = <<to_json(send_log[1]), to_json(send_log[2])>>

\* a step that is the acknowledgement send of the client loop
AckSendStep == main_pc = "client_send" /\ ncalls' = ncalls + 1 /\ op' = "send"

\* the serialization of Envelope("S", "C", "ping"), spelled out
PingLine ==
    <<LBrace, Tok("str", "source"), Colon, Tok("str", "S"), Comma,
      Tok("str", "destination"), Colon, Tok("str", "C"), Comma,
      Tok("str", "content"), Colon, Tok("str", "ping"), RBrace>>

\* C14 as stated: the client prints the line of a received message and then
\* sends the acknowledgement, so that when the acknowledgement is sent the
\* line of its batch is already printed.
C14_EmissionBeforeAck ==
    [][AckSendStep =>
          /\ Len(stdout) = Len(send_log) + 1
          /\ stdout[Len(stdout)] = to_json(messages[1])]_vars

\* C14 amended: when the client receives a message it sends exactly one
\* acknowledgement and then prints one line equal to the message's
\* serialization; when the acknowledgement is sent the line of its batch is
\* not printed yet, and every printed line has its acknowledgement before
\* it.
C14_AckBeforeEmission ==
    /\ [](Len(stdout) <= Len(send_log) /\ Len(send_log) <= Len(stdout) + 1)
    /\ [][/\ AckSendStep =>
                /\ Len(stdout) = Len(send_log)
                /\ stdout' = stdout
                /\ SentNow = AckEnvelope
          /\ stdout' # stdout =>
                /\ op = "send" /\ raised = ""
                /\ send_log' = send_log
                /\ Len(send_log) = Len(stdout) + 1
                /\ Len(messages) = 1
                /\ messages[1] = MessageObject(Str("S"), Str("C"), Str("ping"))
                /\ stdout' = Append(stdout, PingLine)]_vars

\* the client received Envelope("S", "C", "ping"), acknowledged it once and
\* then printed its line
C14_Witness ==
    /\ main_pc = "client_recv"
    /\ op = "send" /\ raised = ""
    /\ send_log = <<AckEnvelope>>
    /\ pipe_written = <<to_json(AckEnvelope)>>
    /\ stdout = <<PingLine>>

\* entry_point has chosen its branch
BranchTaken == pipe_object # "None" /\ main_pc # "constructed"

\* the process took the client branch: it connects and runs the client loop,
\* binds no server and starts no drain thread
RanAsClient ==
    /\ client_active
    /\ mode # "SERVER" /\ pipe_handle.kind # "Server"
    /\ ~alive /\ worker_pc = "unstarted"

\* the process took the server branch
RanAsServer ==
    /\ ~client_active
    /\ mode # "CLIENT" /\ pipe_handle.kind # "Client"
    /\ messages = <<>> /\ stdout = <<>>

\* C15: --mode client and its alias c select the CLIENT role, --mode server
\* and its alias s the SERVER role: with c the process connects as a client
\* and runs the client loop, and neither binds a server nor starts the drain
\* thread.
C15_AliasSelectsRole ==
    BranchTaken =>
       /\ args_mode \in {"client", "c"} => RanAsClient
       /\ args_mode \in {"server", "s"} => RanAsServer

\* what the code does: only the word client selects the CLIENT role, the
\* alias c runs as a server like server and s
C15_OnlyClientSelectsClient ==
    BranchTaken =>
       /\ args_mode = "client" => RanAsClient
       /\ args_mode \in {"server", "s", "c"} => RanAsServer

\* from_json has returned or raised
Parsed == codec_pc \in {"parsed", "reparsed"}

\* the text is a JSON object
IsObjectText(text) == json_loads(text).exc = "" /\ json_loads(text).val.k = "obj"

\* the keys written in the text of a JSON object: the strings before a colon
KeysIn(text) ==
    {text[i].v : i \in {j \in 1..(Len(text) - 1) : text[j].t = "str" /\ text[j + 1] = Colon}}

RequiredKeys == {"source", "destination", "content"}

\* C16: from_json of a JSON object that lacks one or more of the keys
\* source, destination, content raises KeyError and returns no MessageObject,
\* whichever keys are the missing ones; of a JSON object that has the three
\* keys it returns a MessageObject.
C16_MissingFieldRefused ==
    (Parsed /\ IsObjectText(json_text)) =>
       IF RequiredKeys \subseteq KeysIn(json_text)
       THEN decoded.exc = ""
       ELSE decoded.exc = "KeyError" /\ decoded.obj = NoMessage

\* an object that has content and another key, and neither source nor
\* destination, was refused
C16_Witness ==
    /\ codec_pc = "parsed"
    /\ IsObjectText(json_text)
    /\ KeysIn(json_text) = {"content", "id"}
    /\ decoded.exc = "KeyError"

\* every set of missing keys is met: for each, an object lacking exactly
\* those keys is among the texts
C16_EveryMissingSetTried ==
    \A missing \in SUBSET RequiredKeys :
       \E text \in Documents :
          IsObjectText(text) /\ RequiredKeys \ KeysIn(text) = missing

\* the value written for `key` in the text of a JSON object, the last one
\* when the key is written more than once
ValueIn(text, key) ==
    LET at == {i \in 1..(Len(text) - 2) : text[i] = Tok("str", key) /\ text[i + 1] = Colon}
        last == CHOOSE i \in at : \A j \in at : j <= i
    IN  IF text[last + 2].t = "null" THEN Null ELSE Str(text[last + 2].v)

\* the three fields of a MessageObject
Fields(m) == {m.source, m.destination, m.content}

\* C17 as stated, for the payloads received: every MessageObject from_json
\* returns has source, destination and content that are not null; a payload
\* with a null value is never made a MessageObject.
C17_FieldsNonNull ==
    (codec_pc = "parsed" /\ decoded.exc = "") =>
       \A v \in Fields(decoded.obj) : v.k = "str"

\* C17 amended: every MessageObject from_json returns comes from a JSON
\* object in which source, destination and content are all written, and
\* each of its fields is the value written for its key, a null value being
\* kept as None; a text in which one of the keys is not written is never
\* made a MessageObject.
C17_FieldsPresent ==
    (Parsed /\ decoded.exc = "") =>
       /\ IsObjectText(json_text)
       /\ RequiredKeys \subseteq KeysIn(json_text)
       /\ decoded.obj = MessageObject(ValueIn(json_text, "source"),
                                      ValueIn(json_text, "destination"),
                                      ValueIn(json_text, "content"))

\* a received object with the three keys written, each with the value null,
\* was made a MessageObject whose fields are None
C17_Witness ==
    /\ codec_pc = "parsed"
    /\ decoded.exc = ""
    /\ RequiredKeys \subseteq KeysIn(json_text)
    /\ Fields(decoded.obj) = {Null}

\* a MessageObject whose three fields are strings
IsValidEnvelope(m) == \A v \in Fields(m) : v.k = "str"

\* C18: for every MessageObject e with three string fields, from_json of
\* e.to_json() raises nothing and returns a MessageObject whose source,
\* destination and content are those of e.
C18_RoundTrip ==
    (codec_pc = "reparsed" /\ IsValidEnvelope(original)) =>
       /\ decoded.exc = ""
       /\ decoded.obj.source = original.source
       /\ decoded.obj.destination = original.destination
       /\ decoded.obj.content = original.content

\* an envelope with three different strings, the empty one and NORELAY among
\* them, came back from its own text
C18_Witness ==
    /\ codec_pc = "reparsed"
    /\ original = MessageObject(Str(""), NORELAY, Str("A"))
    /\ Len(json_text) = 13
    /\ decoded.exc = ""
    /\ decoded.obj = original

\* the thread of _message_thread has left its loop
WorkerDone == worker_pc = "done"

\* C19: the drain thread leaves its loop only when alive is cleared.  While
\* alive is set it is never done: from the head of the loop it goes on to the
\* head of the queue, or to sleep when the queue is empty, and a message that
\* fails takes it back to the head of the loop.  Once alive is cleared, its
\* next test of the flag ends it, with no send and no removal; what is queued
\* then stays queued and is never sent.
C19_WorkerStopsOnlyWhenCleared ==
    /\ [](WorkerDone => ~alive)
    /\ [][/\ (~WorkerDone /\ WorkerDone') =>
                /\ worker_pc = "loop" /\ ~alive
                /\ message_queue' = message_queue
                /\ send_log' = send_log /\ pop_log' = pop_log
          /\ (worker_pc = "loop" /\ worker_pc' # "loop") =>
                worker_pc' = IF ~alive THEN "done"
                             ELSE IF message_queue # <<>> THEN "try" ELSE "sleep"
          /\ (worker_pc \in {"except", "finally"} /\ worker_pc' # worker_pc) =>
                worker_pc' \in {"finally", "loop"}
          /\ WorkerDone =>
                /\ WorkerDone'
                /\ send_log' = send_log /\ pop_log' = pop_log
                /\ IsPrefix(message_queue, message_queue')]_vars

\* while alive was set the thread dropped a payload that did not parse and
\* sent the next; alive was cleared and the thread ended with a payload
\* still queued
C19_Witness ==
    /\ WorkerDone /\ ~alive
    /\ Len(pop_log) = 2
    /\ pop_log[1] = json_dumps(BodyList)
    /\ Len(send_log) = 1
    /\ Len(message_queue) = 1

\* the process has ended: entry_point returned or raised and quit has run
Exited == main_pc = "exited"

\* C20: however entry_point ends, quit closes the channel once when one was
\* opened, and close is never called on a session whose channel was never
\* opened.
C20_ShutdownClosesOnce ==
    /\ closed <= 1
    /\ (Exited /\ opened > 0) => closed = 1
    /\ (Exited /\ opened = 0) => closed = 0 /\ op # "close"

\* the part the code keeps: a channel that was opened is closed once by quit,
\* and nothing is closed before quit runs
C20_OpenedChannelClosedOnce ==
    /\ closed <= 1
    /\ (Exited /\ opened > 0) => closed = 1 /\ op = "close" /\ raised = ""
    /\ ~Exited => closed = 0

\* the other part as the code has it: when no channel was opened, quit ends
\* with AttributeError, from close() on the session or from .close on None
C20_QuitFailsWithoutChannel ==
    (Exited /\ opened = 0) => main_exc = "AttributeError"

====
